---- MODULE Spec2Model ----
(***************************************************************************)
(* corescrape: a proxy rotator (proxy/proxy.py, proxy/rotator.py) driven   *)
(* by a thread controller (threads/corescrape_thread.py) that shares a     *)
(* state-carrying event (threads/corescrape_event.py).                     *)
(*                                                                         *)
(* Strings that the code splits or strips are tuples of one-character      *)
(* strings.  Proxy objects are the entries of the sequence proxies; the    *)
(* priority queue holds indexes into it, as the Python queue holds         *)
(* references.                                                             *)
(***************************************************************************)
EXTENDS Integers, Sequences, FiniteSets, TLC

VARIABLES
    prx,            \* a Proxy object driven directly through its methods
    calls,          \* the method calls made on prx since its construction
    urls,           \* the list handed to start_threads / __split
    nthreads,       \* CoreScrapeThread.nthreads
    actualnthreads, \* CoreScrapeThread.actualnthreads
    data,           \* the chunks __split produced, one per thread id
    body,           \* text of the response of the proxy API read by retrieve
    raised,         \* exception that escaped the caller's last call, or "none"
    proxies,        \* every Proxy object constructed by the Rotator
    heap,           \* Rotator.proxies: the heap list of the PriorityQueue
    dynproxies,     \* Rotator.dynproxies
    dynamic_proxy_key, \* Rotator.dynamic_proxy_key ("none" stands for None)
    curstate,       \* States.curstate
    event,          \* the flag of CoreScrapeEvent
    threads,        \* CoreScrapeThread.threads (thread ids)
    queue,          \* CoreScrapeThread.queue
    caller,         \* where the calling script stands
    pc,             \* per thread: position in __iterate / Rotator.request
    idx,            \* per thread: index in its chunk of the url in progress
    res,            \* per thread: the local list res of __iterate
    curproxy,       \* per thread: the local curproxy of request (0: none)
    page,           \* per thread: the local page of request
    answer,         \* history, per thread: what requests.get did in the last
                    \* request for a url: the kind of page or the exception
    maxtries,       \* Rotator.maxtriesproxy
    parser,         \* CoreScrapeThread.parser ("None", or "parser" for an
                    \* object with a parse method)
    faults,         \* history: irregular events: requests answered by anything
                    \* but a clean page, calls made out of turn, signals
    banned,         \* history: Proxy objects disposed of after a ban phrase
    timeout,        \* CoreScrapeThread.timeout (0 stands for None)
    timeoutset,     \* CoreScrapeThread.timeoutset
    alarm,          \* a SIGALRM is scheduled by signal.alarm
    call,           \* the calling script's last call: method, argument, what
                    \* it returned (ret, with the list returned in out)
    started         \* history: urls handed to the accepted start_threads calls

vars == <<prx, calls, urls, nthreads, actualnthreads, data, body, raised,
          proxies, heap, dynproxies, dynamic_proxy_key, curstate, event,
          threads, queue, caller, pc, idx, res, curproxy, page, answer,
          maxtries, parser,
          faults, banned, timeout, timeoutset, alarm, call, started>>

----------------------------------------------------------------------------
(* Bounds of the model.                                                    *)

MaxWeight == 3      \* weights passed to up_priority / down_priority: 1..MaxWeight
MaxCalls == 5       \* method calls made on the directly driven Proxy
MaxSplitLen == 9    \* longest list handed to __split on its own
MaxSplitThreads == 6 \* largest nthreads tried with __split on its own
MaxBody == 4        \* characters in a proxy API response body
MainThreads == 2    \* largest nthreads of the controller in the whole system
MaxUrls == 2        \* longest url list handed to start_threads
MaxProxies == 2     \* Proxy objects the Rotator constructs in one run
MaxFaults == 1      \* irregular events of one run (see faults)

\* Rotator.__init__ default of maxtriesproxy
maxtriesproxy == 2

----------------------------------------------------------------------------
(* Python string helpers: str.strip, str.split.                            *)

Range(s) == {s[i] : i \in 1..Len(s)}

IsSpace(c) == c \in {" ", "\n"}

RECURSIVE lstrip(_)
lstrip(s) == IF s # <<>> /\ IsSpace(s[1]) THEN lstrip(Tail(s)) ELSE s

RECURSIVE rstrip(_)
rstrip(s) ==
    IF s # <<>> /\ IsSpace(s[Len(s)]) THEN rstrip(SubSeq(s, 1, Len(s) - 1)) ELSE s

str_strip(s) == rstrip(lstrip(s))

\* s.split(sep) for a one-character sep: always at least one part
RECURSIVE str_split(_, _)
str_split(s, sep) ==
    IF \E i \in 1..Len(s) : s[i] = sep
    THEN LET i == CHOOSE k \in 1..Len(s) :
                      s[k] = sep /\ \A j \in 1..(k - 1) : s[j] # sep
         IN  <<SubSeq(s, 1, i - 1)>> \o str_split(SubSeq(s, i + 1, Len(s)), sep)
    ELSE <<s>>

\* strip(l) of rotator.py, also the inline map of retrieve
strip(l) == [i \in 1..Len(l) |-> str_strip(l[i])]

----------------------------------------------------------------------------
(* proxy/proxy.py                                                          *)

\* Proxy.__init__ raises ValueError unless address.split(':') has two parts
Proxy_valid(address) == Len(str_split(address, ":")) = 2

Proxy_init(address) ==
    [ready |-> TRUE, address |-> address, numtries |-> 0, priority |-> 10,
     max_on_a_row |-> 3, on_a_row |-> 0]

\* a demotion that forgets to end the run of hits
down_priority_keeps_row(p, weight) == [p EXCEPT !.priority = p.priority + weight]

down_priority(p, weight) ==
    [p EXCEPT !.priority = p.priority + weight, !.on_a_row = 0]

\* a try counted with the priority left alone
add_up_try_counts_only(p) == [p EXCEPT !.numtries = p.numtries + 1]

\* Proxy.add_up_try
add_up_try(p) == down_priority([p EXCEPT !.numtries = p.numtries + 1], 1)

up_priority(p, weight) ==
    IF p.on_a_row > p.max_on_a_row
    THEN down_priority(p, p.max_on_a_row + 1)
    ELSE IF p.priority > 0
         THEN [p EXCEPT !.priority = p.priority - weight,
                        !.on_a_row = p.on_a_row + 1]
         ELSE p

\* the comparison turned round
Proxy_gt(a, b) == a.priority > b.priority

\* Proxy.__lt__
Proxy_lt(a, b) == a.priority < b.priority

----------------------------------------------------------------------------
(* The PriorityQueue of Proxy held by the Rotator (self.proxies).  Its     *)
(* list is a binary heap ordered by Proxy.__lt__; positions are 1-based    *)
(* here.  P is the sequence of Proxy objects the references point into.    *)

item_lt(x, y, P) == Proxy_lt(P[x], P[y])

\* heapq._siftdown: move newitem from pos towards startpos
RECURSIVE siftdown(_, _, _, _, _)
siftdown(h, startpos, pos, newitem, P) ==
    IF pos > startpos /\ item_lt(newitem, h[pos \div 2], P)
    THEN siftdown([h EXCEPT ![pos] = h[pos \div 2]], startpos, pos \div 2,
                  newitem, P)
    ELSE [h EXCEPT ![pos] = newitem]

\* heapq._siftup: bubble the smaller child up until a leaf, then sift down
RECURSIVE siftup_loop(_, _, _, _, _)
siftup_loop(h, startpos, pos, newitem, P) ==
    LET childpos == 2 * pos
        rightpos == childpos + 1
        c == IF rightpos <= Len(h) /\ ~item_lt(h[childpos], h[rightpos], P)
             THEN rightpos ELSE childpos
    IN  IF childpos <= Len(h)
        THEN siftup_loop([h EXCEPT ![pos] = h[c]], startpos, c, newitem, P)
        ELSE siftdown([h EXCEPT ![pos] = newitem], startpos, pos, newitem, P)

siftup(h, pos, P) == siftup_loop(h, pos, pos, h[pos], P)

\* PriorityQueue.put -> heapq.heappush
heappush(h, item, P) == siftdown(Append(h, item), 1, Len(h) + 1, item, P)

\* PriorityQueue.get on a non-empty queue -> heapq.heappop
heappop(h, P) ==
    LET lastelt == h[Len(h)]
        rest == SubSeq(h, 1, Len(h) - 1)
    IN  IF rest # <<>>
        THEN [item |-> rest[1], heap |-> siftup([rest EXCEPT ![1] = lastelt], 1, P)]
        ELSE [item |-> lastelt, heap |-> rest]

----------------------------------------------------------------------------
(* threads/corescrape_event.py                                             *)

StateNames == {"STARTED", "EXECUTING", "REFRESH_PROXIES", "ABORT_THREAD",
               "ABORT_USER", "FINISHED", "TIMEOUT", "OUT_OF_PROXIES"}

\* a SETEVENT column in which TIMEOUT is left NONE
SETEVENT_without_timeout(s) ==
    s \in {"REFRESH_PROXIES", "ABORT_THREAD", "ABORT_USER", "OUT_OF_PROXIES"}

\* the property columns of the class attributes of States
SENTENCED(s) == s \in {"ABORT_THREAD", "ABORT_USER", "FINISHED"}
TRACEBACK(s) == s = "ABORT_THREAD"
SETEVENT(s) == s \in {"REFRESH_PROXIES", "ABORT_THREAD", "ABORT_USER",
                      "TIMEOUT", "OUT_OF_PROXIES"}

\* a set_event that never sets the flag
set_event_never(s, flag) == flag

\* States.set_event: sets the flag when the current state asks for it
set_event(s, flag) == IF SETEVENT(s) THEN TRUE ELSE flag

\* the generated set_<kstate> methods
set_state(kstate) ==
    /\ curstate' = kstate
    /\ event' = set_event(kstate, event)

----------------------------------------------------------------------------
(* threads/corescrape_thread.py: __split                                   *)

Min(a, b) == IF a < b THEN a ELSE b

\* a[lo:hi] of Python with 0-based lo, hi already within range
slice(a, lo, hi) == SubSeq(a, lo + 1, hi)

\* the list comprehension of __split before the empty chunks are dropped
split_raw(a, n) ==
    LET k == Len(a) \div n
        m == Len(a) % n
    IN  [j \in 1..n |->
            LET i == j - 1
            IN  slice(a, i * k + Min(i, m), (i + 1) * k + Min(i + 1, m))]

RECURSIVE drop_empty(_)
drop_empty(l) ==
    IF l = <<>> THEN <<>>
    ELSE IF l[1] # <<>> THEN <<l[1]>> \o drop_empty(Tail(l))
         ELSE drop_empty(Tail(l))

\* the split that keeps its empty chunks
split_keep_empty(a, n) == split_raw(a, n)

split(a, n) == drop_empty(split_raw(a, n))

----------------------------------------------------------------------------
(* State after the constructors: Rotator.__init__ (no importdyn) and       *)
(* CoreScrapeThread.__init__ with the event in STARTED.                    *)

NoProxy == [ready |-> FALSE]

Url(i) == <<"http://", i>>

\* no call made yet
NoCall == [op |-> "none", arg |-> <<>>, ret |-> "None", out |-> <<>>]

Constructed ==
    /\ raised = "none"
    /\ proxies = <<>>
    /\ heap = <<>>
    /\ dynproxies = {}
    /\ curstate = "STARTED"
    /\ event = FALSE
    /\ threads = <<>>
    /\ queue = <<>>
    /\ caller = "new"
    /\ pc = <<>>
    /\ idx = <<>>
    /\ res = <<>>
    /\ curproxy = <<>>
    /\ page = <<>>
    /\ answer = <<>>
    /\ data = <<>>
    /\ faults = 0
    /\ banned = {}
    /\ timeoutset = FALSE
    /\ alarm = FALSE
    /\ call = NoCall
    /\ started = 0

rotatorVars == <<proxies, heap, dynproxies, dynamic_proxy_key>>
eventVars == <<curstate, event>>
threadVars == <<pc, idx, res, curproxy, page, answer>>
controlVars == <<urls, nthreads, actualnthreads, data, threads, queue, caller>>
historyVars == <<faults, banned>>
mainVars == <<timeout, timeoutset, alarm, call, started>>
configVars == <<body, maxtries, parser>>
systemVars == <<rotatorVars, eventVars, threadVars, controlVars, historyVars,
                mainVars, configVars, raised>>

----------------------------------------------------------------------------
(* A Proxy driven directly through its public methods.                     *)

Address1 == <<"1", ":", "1">>

InitProxy ==
    /\ prx = Proxy_init(Address1)
    /\ calls = <<>>
    /\ urls = <<>> /\ nthreads = 1 /\ actualnthreads = 1
    /\ body = <<>> /\ dynamic_proxy_key = "none"
    /\ timeout = 0
    /\ maxtries = maxtriesproxy
    /\ parser = "None"
    /\ Constructed

CallUpPriority(weight) ==
    /\ Len(calls) < MaxCalls
    /\ prx' = up_priority(prx, weight)
    /\ calls' = Append(calls, <<"up_priority", weight>>)
    /\ UNCHANGED systemVars

CallDownPriority(weight) ==
    /\ Len(calls) < MaxCalls
    /\ prx' = down_priority(prx, weight)
    /\ calls' = Append(calls, <<"down_priority", weight>>)
    /\ UNCHANGED systemVars

CallAddUpTry ==
    /\ Len(calls) < MaxCalls
    /\ prx' = add_up_try(prx)
    /\ calls' = Append(calls, <<"add_up_try", 1>>)
    /\ UNCHANGED systemVars

NextProxy ==
    \/ \E weight \in 1..MaxWeight : CallUpPriority(weight)
    \/ \E weight \in 1..MaxWeight : CallDownPriority(weight)
    \/ CallAddUpTry

SpecProxy == InitProxy /\ [][NextProxy]_vars

\* C1: after any sequence of up_priority / down_priority / add_up_try calls
\* with positive weights on a fresh Proxy, priority >= 0.
C1_PriorityNeverNegative == prx.priority >= 0

\* C2: on a fresh Proxy, the (max_on_a_row + 1)-th consecutive up_priority()
\* strictly increases priority.
C2_CapPlusOneDemotes ==
    [][(/\ Len(calls) = prx.max_on_a_row
        /\ \A i \in 1..Len(calls) : calls[i] = <<"up_priority", 1>>
        /\ calls' = Append(calls, <<"up_priority", 1>>))
       => prx'.priority > prx.priority]_vars

----------------------------------------------------------------------------
(* __split on its own, over every list length and thread count in bounds.  *)

InitSplit ==
    /\ prx = NoProxy /\ calls = <<>>
    /\ \E L \in 0..MaxSplitLen : urls = [i \in 1..L |-> Url(i)]
    /\ nthreads \in 1..MaxSplitThreads
    /\ actualnthreads = nthreads
    /\ body = <<>> /\ dynamic_proxy_key = "none"
    /\ timeout = 0
    /\ maxtries = maxtriesproxy
    /\ parser = "None"
    /\ Constructed

CallSplit ==
    /\ caller = "new"
    /\ data' = split(urls, nthreads)
    /\ actualnthreads' = Len(split(urls, nthreads))
    /\ caller' = "split"
    /\ UNCHANGED <<prx, calls, mainVars, urls, nthreads, configVars, raised, rotatorVars,
                   eventVars, threadVars, threads, queue, historyVars>>

NextSplit == CallSplit

SpecSplit == InitSplit /\ [][NextSplit]_vars

RECURSIVE Flatten(_)
Flatten(l) == IF l = <<>> THEN <<>> ELSE l[1] \o Flatten(Tail(l))

\* C7: for a list of L >= 1 urls and N >= 1 threads, __split gives min(N, L)
\* chunks, none empty, of sizes differing by at most 1 and summing to L, and
\* actualnthreads is the number of chunks.
C7_SplitBalanced ==
    (caller = "split" /\ Len(urls) >= 1) =>
        /\ Len(data) = Min(nthreads, Len(urls))
        /\ actualnthreads = Len(data)
        /\ \A i \in 1..Len(data) : data[i] # <<>>
        /\ \A i, j \in 1..Len(data) : Len(data[i]) - Len(data[j]) <= 1
        /\ Flatten(data) = urls

C7_Witness ==
    /\ caller = "split"
    /\ nthreads > Len(urls)
    /\ Len(urls) >= 2
    /\ actualnthreads = Len(urls)

----------------------------------------------------------------------------
(* proxy/rotator.py: __put_proxy and retrieve                              *)

\* __put_proxy: Proxy(address) raises ValueError on a malformed address and
\* the handler names CoreScrapeInvalidProxy only, so the error escapes.
put_proxy(P, H, D, address, dyn) ==
    IF ~Proxy_valid(address)
    THEN [proxies |-> P, heap |-> H, dynproxies |-> D, raised |-> "ValueError"]
    ELSE LET P2 == Append(P, Proxy_init(address))
         IN  [proxies |-> P2,
              heap |-> heappush(H, Len(P2), P2),
              dynproxies |-> IF dyn THEN D \cup {address} ELSE D,
              raised |-> "none"]

\* the tokens retrieve discards by name
ignore == {<<>>, <<" ">>, <<":">>, <<" ", ":", " ">>, <<" ", ":">>, <<":", " ">>}

\* the set retrieve builds from one response text (sep = "\n", no parse_func)
retrieve_tokens(text) ==
    {x \in Range(strip(str_split(text, "\n"))) : x \notin ignore}

\* the orders shuffle can leave a set in
Shuffles(S) == {s \in [1..Cardinality(S) -> S] : Range(s) = S}

\* the final loop of retrieve: stops at the first error that escapes
RECURSIVE put_all(_, _, _)
put_all(order, P, H) ==
    IF order = <<>> THEN [proxies |-> P, heap |-> H, raised |-> "none"]
    ELSE LET r == put_proxy(P, H, {}, order[1], FALSE)
         IN  IF r.raised # "none"
             THEN [proxies |-> r.proxies, heap |-> r.heap, raised |-> r.raised]
             ELSE put_all(Tail(order), r.proxies, r.heap)

\* retrieve, whose request is answered with the text in body
retrieve_ok ==
    /\ caller = "new"
    /\ \E order \in Shuffles(retrieve_tokens(body)) :
          LET r == put_all(order, proxies, heap)
          IN  /\ proxies' = r.proxies
              /\ heap' = r.heap
              /\ raised' = r.raised
              /\ caller' = IF r.raised = "none" THEN "retrieved" ELSE "crashed"
    /\ UNCHANGED <<prx, calls, mainVars, urls, nthreads, actualnthreads, data, configVars,
                   dynproxies, dynamic_proxy_key, eventVars, threadVars,
                   threads, queue, historyVars>>

\* retrieve, whose request raises a requests exception: the except clause
\* evaluates any_exception(), which adds a class to a tuple: TypeError
retrieve_neterr ==
    /\ caller = "new"
    /\ raised' = "TypeError"
    /\ caller' = "crashed"
    /\ UNCHANGED <<prx, calls, mainVars, urls, nthreads, actualnthreads, data, configVars,
                   rotatorVars, eventVars, threadVars, threads, queue,
                   historyVars>>

retrieve == retrieve_ok \/ retrieve_neterr

BodyChars == {"1", ":", " ", "\n"}

Texts(n) == UNION {[1..k -> BodyChars] : k \in 0..n}

InitRetrieve ==
    /\ prx = NoProxy /\ calls = <<>>
    /\ urls = <<>> /\ nthreads = 1 /\ actualnthreads = 1
    /\ body \in Texts(MaxBody)
    /\ dynamic_proxy_key = "none"
    /\ timeout = 0
    /\ maxtries = maxtriesproxy
    /\ parser = "None"
    /\ Constructed

NextRetrieve == retrieve

SpecRetrieve == InitRetrieve /\ [][NextRetrieve]_vars

PoolAddresses == {proxies[heap[i]].address : i \in 1..Len(heap)}

\* C8: retrieve over a response with empty and malformed tokens completes
\* without raising and leaves in the pool a Proxy for exactly the well-formed
\* tokens.
C8_RetrieveDropsMalformed ==
    (caller # "new" /\ raised # "TypeError") =>
        /\ raised = "none"
        /\ PoolAddresses = {x \in retrieve_tokens(body) : Proxy_valid(x)}

----------------------------------------------------------------------------
(* proxy/rotator.py: __request, __treat_new_proxy, request                 *)

\* what requests.get can do, as the Rotator tells the cases apart
ProxyExceptions == {"ProxyError"}            \* proxy_exceptions()
ConnExceptions == {"ConnectionError"}        \* conn_exceptions()
CommExceptions == {"ChunkedEncodingError"}   \* comm_exceptions()
Responses == {"403", "ban", "404", "ok"}     \* a page: forbidden, with an
                                             \* ignoremsgs phrase, not
                                             \* found, or clean

\* a __request that puts the proxy back however many tries it used
Rotator_request_put_back(P, H, cur, outcome, ignore_tries) ==
    IF outcome \in ProxyExceptions
    THEN IF ~ignore_tries
         THEN LET P2 == [P EXCEPT ![cur] = add_up_try(P[cur])]
              IN  [proxies |-> P2, heap |-> heappush(H, cur, P2),
                   page |-> "None", continue |-> TRUE]
         ELSE [proxies |-> P, heap |-> H, page |-> "None", continue |-> FALSE]
    ELSE IF outcome \in ConnExceptions \cup CommExceptions
         THEN [proxies |-> P, heap |-> H, page |-> "None", continue |-> TRUE]
         ELSE [proxies |-> P, heap |-> H, page |-> outcome, continue |-> FALSE]

\* a __request that charges the proxy for every exception alike
Rotator_request_any_counted(P, H, cur, outcome, ignore_tries) ==
    IF outcome \in ProxyExceptions \cup ConnExceptions \cup CommExceptions
    THEN IF ~ignore_tries
         THEN LET P2 == [P EXCEPT ![cur] = add_up_try(P[cur])]
              IN  IF P2[cur].numtries < maxtries
                  THEN [proxies |-> P2, heap |-> heappush(H, cur, P2),
                        page |-> "None", continue |-> TRUE]
                  ELSE [proxies |-> P2, heap |-> H,
                        page |-> "None", continue |-> FALSE]
         ELSE [proxies |-> P, heap |-> H, page |-> "None", continue |-> FALSE]
    ELSE [proxies |-> P, heap |-> H, page |-> outcome, continue |-> FALSE]

\* __request: the Proxy objects and the heap afterwards, page and _continue
Rotator_request(P, H, cur, outcome, ignore_tries) ==
    IF outcome \in ProxyExceptions
    THEN IF ~ignore_tries
         THEN LET P2 == [P EXCEPT ![cur] = add_up_try(P[cur])]
              IN  IF P2[cur].numtries < maxtries
                  THEN [proxies |-> P2, heap |-> heappush(H, cur, P2),
                        page |-> "None", continue |-> TRUE]
                  ELSE [proxies |-> P2, heap |-> H,
                        page |-> "None", continue |-> FALSE]
         ELSE [proxies |-> P, heap |-> H, page |-> "None", continue |-> FALSE]
    ELSE IF outcome \in ConnExceptions \cup CommExceptions
         THEN [proxies |-> P, heap |-> H, page |-> "None", continue |-> TRUE]
         ELSE [proxies |-> P, heap |-> H, page |-> outcome, continue |-> FALSE]

\* the same request without ignore_tries
treat_new_proxy_request_counted(P, H, cur, outcome) ==
    Rotator_request(P, H, cur, outcome, FALSE)

\* the request __treat_new_proxy sends to the dynamic proxy API
treat_new_proxy_request(P, H, cur, outcome) ==
    Rotator_request(P, H, cur, outcome, TRUE)

\* what the parsed answer of the dynamic proxy API can be
DynAddresses == {Address1, <<"3">>}

----------------------------------------------------------------------------
(* The whole system: the calling script retrieves proxies, then starts the *)
(* threads, each running __iterate over its chunk.                         *)

Address2 == <<"2", ":", "1">>

\* responses of the proxy API: one address, or two
ApiTexts == {Address1, Address1 \o <<"\n">> \o Address2}

Init ==
    /\ prx = NoProxy /\ calls = <<>>
    /\ urls = <<>>
    /\ nthreads \in 1..MainThreads
    /\ actualnthreads = nthreads
    /\ body \in ApiTexts
    /\ dynamic_proxy_key \in {"none", "plain"}
    \* the pool comes whole from the API, or grows by discovery from one address
    /\ dynamic_proxy_key # "none" => body = Address1
    /\ timeout = 0
    /\ maxtries = maxtriesproxy
    /\ parser = "None"
    /\ Constructed

\* a __warn_wait_threads that never warns
warn_wait_threads_never(thr) == FALSE

\* __warn_wait_threads
warn_wait_threads(thr) == thr # <<>>

\* a test that lets every list through
test_if_urls_any(p) == TRUE

\* test_if_urls and all() in start_threads
test_if_urls(p) == \A i \in 1..Len(p) : p[i][1] \in {"http://", "https://"}

\* the positions in which the calling script is free to make a call
Idle == {"new", "retrieved", "started", "joined"}

BadUrl(i) == <<"ftp://", i>>

\* lists with a url that has no protocol
BadUrlLists == {<<BadUrl(1)>>, <<Url(1), BadUrl(2)>>}

\* the lists of fresh urls after n were handed over, at most MaxUrls over
\* all the batches of a run
UrlBatches(n) == {[i \in 1..L |-> Url(n + i)] : L \in 1..(MaxUrls - n)}

\* start_threads with no earlier threads unjoined and a list that passes
\* the test of the protocol
start_threads ==
    /\ caller \in Idle
    /\ ~warn_wait_threads(threads)
    /\ \E u \in UrlBatches(started) \cup BadUrlLists :
          LET L == Len(u)
              chunks == split(u, nthreads)
          IN  /\ test_if_urls(u)
              /\ urls' = u
              /\ data' = chunks
              /\ actualnthreads' = Len(chunks)
              /\ threads' = [t \in 1..Len(chunks) |-> t]
              /\ pc' = [t \in 1..Len(chunks) |-> "iterate"]
              /\ idx' = [t \in 1..Len(chunks) |-> 1]
              /\ res' = [t \in 1..Len(chunks) |-> <<>>]
              /\ curproxy' = [t \in 1..Len(chunks) |-> 0]
              /\ page' = [t \in 1..Len(chunks) |-> "None"]
              /\ answer' = [t \in 1..Len(chunks) |-> "none"]
              /\ call' = [op |-> "start_threads", arg |-> u,
                          ret |-> "True", out |-> <<>>]
              /\ started' = started + L
    /\ set_state("EXECUTING")
    \* __set_timeout
    /\ timeoutset' = IF timeout # 0 THEN TRUE ELSE timeoutset
    /\ alarm' = IF timeout # 0 THEN TRUE ELSE alarm
    /\ caller' = "started"
    /\ UNCHANGED <<prx, calls, timeout, nthreads, configVars, raised, rotatorVars,
                   queue, historyVars>>

Threads == DOMAIN pc

\* request returned to __iterate, which goes on to the next url
next_url(t) ==
    /\ idx' = [idx EXCEPT ![t] = idx[t] + 1]
    /\ pc' = [pc EXCEPT ![t] = "iterate"]

\* __iterate: head of the for loop and the check of the event
iterate(t) ==
    /\ pc[t] = "iterate"
    /\ pc' = [pc EXCEPT ![t] = IF idx[t] > Len(data[t]) \/ event
                               THEN "check_last" ELSE "request"]
    /\ page' = [page EXCEPT ![t] = "None"]   \* not read again before it is set
    /\ answer' = [answer EXCEPT ![t] = "none"]
    /\ UNCHANGED <<prx, calls, mainVars, configVars, raised, rotatorVars, eventVars,
                   controlVars, historyVars, idx, res, curproxy>>

\* request: head of the while loop
request_is_set(t) ==
    /\ pc[t] = "request"
    /\ IF event
       THEN next_url(t)
       ELSE pc' = [pc EXCEPT ![t] = "empty"] /\ idx' = idx
    /\ page' = [page EXCEPT ![t] = "None"]   \* not read again before it is set
    /\ answer' = [answer EXCEPT ![t] = "none"]
    /\ UNCHANGED <<prx, calls, mainVars, configVars, raised, rotatorVars, eventVars,
                   controlVars, historyVars, res, curproxy>>

\* __get_proxy: self.proxies.empty()
get_proxy_empty(t) ==
    /\ pc[t] = "empty"
    /\ pc' = [pc EXCEPT ![t] = IF heap = <<>> THEN "out_of_proxies" ELSE "get"]
    /\ UNCHANGED <<prx, calls, mainVars, configVars, raised, rotatorVars, eventVars,
                   controlVars, historyVars, idx, res, curproxy, page, answer>>

\* a request that gives up on the empty pool without a word to the others
request_out_of_proxies_silent(t) ==
    /\ pc[t] = "out_of_proxies"
    /\ next_url(t)
    /\ UNCHANGED <<prx, calls, mainVars, configVars, raised, rotatorVars,
                   eventVars, controlVars, historyVars, res, curproxy, page,
                   answer>>

\* request: __get_proxy returned None
request_out_of_proxies(t) ==
    /\ pc[t] = "out_of_proxies"
    /\ set_state("OUT_OF_PROXIES")
    /\ next_url(t)
    /\ UNCHANGED <<prx, calls, mainVars, configVars, raised, rotatorVars, controlVars,
                   historyVars, res, curproxy, page, answer>>

\* __get_proxy: self.proxies.get(), which waits while the queue is empty
get_proxy_get(t) ==
    /\ pc[t] = "get"
    /\ heap # <<>>
    /\ LET r == heappop(heap, proxies)
       IN  /\ heap' = r.heap
           /\ curproxy' = [curproxy EXCEPT ![t] = r.item]
    /\ pc' = [pc EXCEPT ![t] = IF dynamic_proxy_key # "none"
                               THEN "treat_new_proxy" ELSE "do_request"]
    /\ UNCHANGED <<prx, calls, mainVars, configVars, raised, proxies, dynproxies,
                   dynamic_proxy_key, eventVars, controlVars, historyVars,
                   idx, res, page, answer>>

\* an exception left request: __iterate sets ABORT_THREAD and breaks
iterate_except(t) ==
    /\ set_state("ABORT_THREAD")
    /\ pc' = [pc EXCEPT ![t] = "check_last"]
    /\ curproxy' = [curproxy EXCEPT ![t] = 0]

\* __treat_new_proxy when the API gives no usable answer
treat_new_proxy_none(t) ==
    /\ pc[t] = "treat_new_proxy"
    /\ \E outcome \in ProxyExceptions \cup ConnExceptions \cup CommExceptions
                      \cup {"403", "ban"} :
          LET r == treat_new_proxy_request(proxies, heap, curproxy[t], outcome)
          IN  /\ proxies' = r.proxies
              /\ heap' = r.heap
    /\ pc' = [pc EXCEPT ![t] = "do_request"]
    /\ UNCHANGED <<prx, calls, mainVars, configVars, raised, dynproxies, dynamic_proxy_key,
                   eventVars, controlVars, historyVars, idx, res, curproxy,
                   page, answer>>

\* __treat_new_proxy when the API answers and the text parses to address
treat_new_proxy_found(t) ==
    /\ pc[t] = "treat_new_proxy"
    /\ Len(proxies) < MaxProxies
    /\ \E address \in DynAddresses :
          LET q == treat_new_proxy_request(proxies, heap, curproxy[t], "ok")
              r == put_proxy(q.proxies, q.heap, dynproxies, address, TRUE)
          IN  /\ proxies' = r.proxies
              /\ heap' = r.heap
              /\ dynproxies' = r.dynproxies
              /\ IF r.raised = "none"
                 THEN /\ pc' = [pc EXCEPT ![t] = "do_request"]
                      /\ UNCHANGED <<eventVars, curproxy>>
                 ELSE iterate_except(t)
    /\ UNCHANGED <<prx, calls, mainVars, configVars, raised, dynamic_proxy_key, controlVars,
                   historyVars, idx, res, page, answer>>

\* the same lines with the continue of the 403 branch left out: the flow
\* falls into the test of the ban phrases
request_settle_falls_through(P, H, cur, pg) ==
    LET P1 == IF pg # "None" /\ pg = "403"
              THEN [P EXCEPT ![cur] = down_priority(P[cur], 10)] ELSE P
        H1 == IF pg # "None" /\ pg = "403" THEN heappush(H, cur, P1) ELSE H
    IN  IF pg # "None" /\ pg # "ban"
        THEN LET P2 == [P1 EXCEPT ![cur] = up_priority(P1[cur], 1)]
             IN  [proxies |-> P2, heap |-> heappush(H1, cur, P2),
                  verdict |-> "return"]
        ELSE [proxies |-> P1, heap |-> H1, verdict |-> "dispose"]

\* lines 418-438 of request, entered when __request returned no _continue:
\* the Proxy objects and the heap afterwards, and the way out of the round
request_settle(P, H, cur, pg) ==
    IF pg # "None" /\ pg = "403"
    THEN LET P2 == [P EXCEPT ![cur] = down_priority(P[cur], 10)]
         IN  [proxies |-> P2, heap |-> heappush(H, cur, P2), verdict |-> "continue"]
    ELSE IF pg # "None" /\ pg # "ban"
         THEN LET P2 == [P EXCEPT ![cur] = up_priority(P[cur], 1)]
              IN  [proxies |-> P2, heap |-> heappush(H, cur, P2),
                   verdict |-> "return"]
         ELSE [proxies |-> P, heap |-> H, verdict |-> "dispose"]

\* what parser.parse can return: nothing, or the data collected
ParseResults == {"empty", "fields"}

\* __iterate with a page that is not None: what is added to res.  A stored
\* response is <<"page", url, kind>>, a dict {url: value} is
\* <<"dict", url, value>>
iterate_store(prs, url, pg, parsed) ==
    IF prs = "None"
    THEN <<<<"page", url, pg>>>>
    ELSE IF pg = "404"
         THEN <<<<"dict", url, "None">>>>
         ELSE IF parsed = "empty"
              THEN <<>>
              ELSE <<<<"dict", url, parsed>>>>

\* request: the request for the url and what the loop does with its outcome;
\* a page returned goes through the rest of the body of the for of __iterate
request_url(t) ==
    /\ pc[t] = "do_request"
    /\ \E outcome \in ProxyExceptions \cup ConnExceptions \cup CommExceptions
                      \cup Responses :
          LET cur == curproxy[t]
              r == Rotator_request(proxies, heap, cur, outcome, FALSE)
              s == IF r.continue
                   THEN [proxies |-> r.proxies, heap |-> r.heap,
                         verdict |-> "continue"]
                   ELSE request_settle(r.proxies, r.heap, cur, r.page)
          IN  /\ outcome # "ok" => faults < MaxFaults
              /\ faults' = IF outcome # "ok" THEN faults + 1 ELSE faults
              /\ banned' = IF r.page = "ban" THEN banned \cup {cur} ELSE banned
              /\ proxies' = s.proxies
              /\ heap' = s.heap
              /\ page' = [page EXCEPT ![t] = r.page]
              /\ answer' = [answer EXCEPT ![t] = outcome]
              /\ curproxy' = [curproxy EXCEPT ![t] = 0]
              /\ IF s.verdict = "return"
                 THEN /\ \E parsed \in IF parser = "None" \/ r.page = "404"
                                        THEN {"empty"} ELSE ParseResults :
                            res' = [res EXCEPT
                                      ![t] = @ \o iterate_store(parser,
                                                     data[t][idx[t]], r.page,
                                                     parsed)]
                      /\ next_url(t)
                 ELSE /\ pc' = [pc EXCEPT ![t] = "request"]
                      /\ UNCHANGED <<res, idx>>
    /\ UNCHANGED <<prx, calls, mainVars, configVars, raised, dynproxies, dynamic_proxy_key,
                   eventVars, controlVars>>

\* request: requests.get raises something the Rotator does not name
request_raises(t) ==
    /\ pc[t] = "do_request"
    /\ faults < MaxFaults
    /\ faults' = faults + 1
    /\ iterate_except(t)
    /\ UNCHANGED <<prx, calls, mainVars, configVars, raised, rotatorVars, controlVars,
                   banned, idx, res, page, answer>>

\* __check_am_i_the_last: with exactly one list queued it calls
\* set_DUTY_FREE, which States does not have: AttributeError ends the thread
\* before its list is queued
check_am_i_the_last(t) ==
    /\ pc[t] = "check_last"
    /\ pc' = [pc EXCEPT ![t] = IF Len(queue) = 1 THEN "died" ELSE "put"]
    /\ UNCHANGED <<prx, calls, mainVars, configVars, raised, rotatorVars, eventVars,
                   controlVars, historyVars, idx, res, curproxy, page, answer>>

\* the thread's target: q.put(self.__iterate(*args))
thread_put(t) ==
    /\ pc[t] = "put"
    /\ queue' = Append(queue, res[t])
    /\ pc' = [pc EXCEPT ![t] = "done"]
    /\ UNCHANGED <<prx, calls, mainVars, configVars, raised, rotatorVars, eventVars,
                   urls, nthreads, actualnthreads, data, threads, caller,
                   historyVars, idx, res, curproxy, page, answer>>

Next ==
    \/ retrieve_ok
    \/ retrieve_neterr
    \/ start_threads
    \/ \E t \in Threads : iterate(t)
    \/ \E t \in Threads : request_is_set(t)
    \/ \E t \in Threads : get_proxy_empty(t)
    \/ \E t \in Threads : request_out_of_proxies(t)
    \/ \E t \in Threads : get_proxy_get(t)
    \/ \E t \in Threads : treat_new_proxy_none(t)
    \/ \E t \in Threads : treat_new_proxy_found(t)
    \/ \E t \in Threads : request_url(t)
    \/ \E t \in Threads : request_raises(t)
    \/ \E t \in Threads : check_am_i_the_last(t)
    \/ \E t \in Threads : thread_put(t)

Spec == Init /\ [][Next]_vars

----------------------------------------------------------------------------
(* The calling script driving the controller: start_threads again,         *)
(* wait_for_threads, join_responses and is_sentenced, with SIGALRM and     *)
(* KeyboardInterrupt arriving from outside.                                *)

\* url lists the script hands to start_threads while threads are unjoined
UrlLists == {<<Url(1)>>} \cup BadUrlLists

\* start_threads while self.threads is not empty: warns and returns False
start_threads_refused ==
    /\ caller \in Idle
    /\ warn_wait_threads(threads)
    /\ faults < MaxFaults       \* counted as an irregular event
    /\ faults' = faults + 1
    /\ UNCHANGED banned
    /\ \E u \in UrlLists :
          call' = [op |-> "start_threads", arg |-> u,
                   ret |-> "False", out |-> <<>>]
    /\ UNCHANGED <<prx, calls, configVars, raised, rotatorVars, eventVars,
                   threadVars, controlVars, timeout, timeoutset,
                   alarm, started>>

\* start_threads with a url that has no protocol: raises ValueError
start_threads_invalid ==
    /\ caller \in Idle
    /\ ~warn_wait_threads(threads)
    /\ \E u \in BadUrlLists :
          /\ ~test_if_urls(u)
          /\ call' = [op |-> "start_threads", arg |-> u,
                      ret |-> "raised", out |-> <<>>]
    /\ raised' = "ValueError"
    /\ caller' = "crashed"
    /\ UNCHANGED <<prx, calls, configVars, rotatorVars, eventVars, threadVars,
                   urls, nthreads, actualnthreads, data, threads, queue,
                   historyVars, timeout, timeoutset, alarm, started>>

\* wait_for_threads: the script enters self.event.wait()
wait_for_threads ==
    /\ caller \in Idle
    /\ ~warn_wait_threads(threads) => faults < MaxFaults
    /\ faults' = IF ~warn_wait_threads(threads) THEN faults + 1 ELSE faults
    /\ UNCHANGED banned
    /\ caller' = "wait"
    /\ call' = [op |-> "wait_for_threads", arg |-> <<>>,
                ret |-> "pending", out |-> <<>>]
    /\ UNCHANGED <<prx, calls, configVars, raised, rotatorVars, eventVars,
                   threadVars, urls, nthreads, actualnthreads, data, threads,
                   queue, timeout, timeoutset, alarm, started>>

\* self.event.wait() returns once the flag is set
event_wait ==
    /\ caller = "wait"
    /\ event
    /\ caller' = "finally"
    /\ UNCHANGED <<prx, calls, mainVars, configVars, raised, rotatorVars, eventVars,
                   threadVars, urls, nthreads, actualnthreads, data, threads,
                   queue, historyVars>>

\* KeyboardInterrupt inside self.event.wait()
KeyboardInterrupt ==
    /\ caller = "wait"
    /\ faults < MaxFaults       \* counted as an irregular event
    /\ faults' = faults + 1
    /\ UNCHANGED banned
    /\ set_state("ABORT_USER")
    /\ caller' = "finally"
    /\ UNCHANGED <<prx, calls, mainVars, configVars, raised, rotatorVars,
                   threadVars, urls, nthreads, actualnthreads, data, threads,
                   queue>>

\* SIGALRM: alarm_handler raises CoreScrapeTimeout in the main thread; only
\* inside self.event.wait() is there a handler for it
alarm_handler ==
    /\ alarm
    \* outside wait_for_threads it counts as an irregular event
    /\ caller # "wait" => faults < MaxFaults
    /\ faults' = IF caller = "wait" THEN faults ELSE faults + 1
    /\ UNCHANGED banned
    /\ caller # "crashed"
    /\ alarm' = FALSE
    /\ IF caller = "wait"
       THEN /\ set_state("TIMEOUT")
            /\ caller' = "finally"
            /\ UNCHANGED raised
       ELSE /\ raised' = "CoreScrapeTimeout"
            /\ caller' = "crashed"
            /\ UNCHANGED eventVars
    /\ UNCHANGED <<prx, calls, configVars, rotatorVars, threadVars, urls, nthreads,
                   actualnthreads, data, threads, queue, timeout,
                   timeoutset, call, started>>

\* a finally clause that leaves the alarm alone
disarm_timeout_skipped ==
    /\ caller = "finally"
    /\ caller' = "join"
    /\ UNCHANGED <<prx, calls, configVars, raised, rotatorVars, eventVars,
                   threadVars, urls, nthreads, actualnthreads, data, threads,
                   queue, historyVars, timeout, timeoutset, alarm, call,
                   started>>

\* the finally clause of wait_for_threads: __disarm_timeout
disarm_timeout ==
    /\ caller = "finally"
    /\ timeoutset' = FALSE
    /\ alarm' = IF timeoutset THEN FALSE ELSE alarm
    /\ caller' = "join"
    /\ UNCHANGED <<prx, calls, configVars, raised, rotatorVars, eventVars,
                   threadVars, urls, nthreads, actualnthreads, data, threads,
                   queue, historyVars, timeout, call, started>>

\* a finally clause that also starts the next batch on a fresh queue
join_threads_new_queue ==
    /\ caller = "join"
    /\ \A i \in 1..Len(threads) : pc[threads[i]] \in {"done", "died"}
    /\ event' = FALSE
    /\ threads' = <<>>
    /\ queue' = <<>>
    /\ caller' = "joined"
    /\ call' = [call EXCEPT !.ret = "None"]
    /\ UNCHANGED <<prx, calls, configVars, raised, rotatorVars, curstate,
                   threadVars, urls, nthreads, actualnthreads, data,
                   historyVars, timeout, timeoutset, alarm, started>>

\* a finally clause that joins the threads and leaves the event as it is
join_threads_keeps_event ==
    /\ caller = "join"
    /\ \A i \in 1..Len(threads) : pc[threads[i]] \in {"done", "died"}
    /\ threads' = <<>>
    /\ caller' = "joined"
    /\ call' = [call EXCEPT !.ret = "None"]
    /\ UNCHANGED <<prx, calls, configVars, raised, rotatorVars, eventVars,
                   threadVars, urls, nthreads, actualnthreads, data, queue,
                   historyVars, timeout, timeoutset, alarm, started>>

\* the rest of the finally clause: thread.join() for every thread, which
\* waits for the thread to end, then self.event.clear() and self.threads = []
join_threads ==
    /\ caller = "join"
    /\ \A i \in 1..Len(threads) : pc[threads[i]] \in {"done", "died"}
    /\ event' = FALSE
    /\ threads' = <<>>
    /\ caller' = "joined"
    /\ call' = [call EXCEPT !.ret = "None"]
    /\ UNCHANGED <<prx, calls, configVars, raised, rotatorVars, curstate,
                   threadVars, urls, nthreads, actualnthreads, data, queue,
                   historyVars, timeout, timeoutset, alarm, started>>

\* a loop body that runs once
drain_first(q) == IF q = <<>> THEN <<>> ELSE Head(q)

\* the loop of join_responses: res += self.queue.get() until empty
RECURSIVE drain(_)
drain(q) == IF q = <<>> THEN <<>> ELSE Head(q) \o drain(Tail(q))

\* join_responses
join_responses ==
    /\ caller \in Idle
    /\ warn_wait_threads(threads) => faults < MaxFaults
    /\ faults' = IF warn_wait_threads(threads) THEN faults + 1 ELSE faults
    /\ UNCHANGED banned
    /\ IF warn_wait_threads(threads)
       THEN /\ call' = [op |-> "join_responses", arg |-> <<>>,
                        ret |-> "list", out |-> <<>>]
            /\ UNCHANGED queue
       ELSE /\ call' = [op |-> "join_responses", arg |-> <<>>,
                        ret |-> "list", out |-> drain(queue)]
            /\ queue' = <<>>
    /\ UNCHANGED <<prx, calls, configVars, raised, rotatorVars, eventVars,
                   threadVars, urls, nthreads, actualnthreads, data, threads,
                   caller, timeout, timeoutset, alarm, started>>

\* an is_sentenced that forgets FINISHED
States_is_sentenced_aborts(state) == state \in {"ABORT_THREAD", "ABORT_USER"}

\* States.is_sentenced
States_is_sentenced(state) == SENTENCED(state)

\* the body of CoreScrapeThread.is_sentenced
Thread_is_sentenced ==
    LET sentenced == States_is_sentenced(curstate)
    IN  /\ IF sentenced THEN set_state("FINISHED") ELSE UNCHANGED eventVars
        /\ call' = [op |-> "is_sentenced", arg |-> <<>>,
                    ret |-> IF sentenced THEN "True" ELSE "False",
                    out |-> <<>>]

\* CoreScrapeThread.is_sentenced called by the script, between its other
\* calls or while the threads run
is_sentenced ==
    /\ caller \in Idle
    /\ UNCHANGED historyVars
    /\ Thread_is_sentenced
    /\ UNCHANGED <<prx, calls, configVars, raised, rotatorVars, threadVars,
                   controlVars, timeout, timeoutset, alarm,
                   started>>

\* the controller is driven with one thread or two; what more threads do to
\* the Rotator is explored under Spec
ControlThreads == {1, 2}

\* the controller constructed with or without a timeout; dynamic discovery
\* only with a single thread
InitControl ==
    /\ prx = NoProxy /\ calls = <<>>
    /\ urls = <<>>
    /\ nthreads \in ControlThreads
    /\ actualnthreads = nthreads
    /\ body \in ApiTexts
    /\ dynamic_proxy_key \in {"none", "plain"}
    /\ dynamic_proxy_key # "none" => body = Address1 /\ nthreads = 1
    /\ timeout \in {0, 1}
    /\ maxtries = maxtriesproxy
    /\ parser = "None"
    /\ Constructed

NextControl ==
    \/ Next
    \/ start_threads_refused
    \/ start_threads_invalid
    \/ wait_for_threads
    \/ event_wait
    \/ KeyboardInterrupt
    \/ alarm_handler
    \/ disarm_timeout
    \/ join_threads
    \/ join_responses
    \/ is_sentenced

SpecControl == InitControl /\ [][NextControl]_vars

----------------------------------------------------------------------------
(* The Rotator under the other configurations: a Parser given to the       *)
(* threads, and maxtriesproxy from 1 up to its default.                    *)

\* one thread, or two that share the pool
FetchThreads == {1, 2}

InitFetch ==
    /\ prx = NoProxy /\ calls = <<>>
    /\ urls = <<>>
    /\ nthreads \in FetchThreads
    /\ actualnthreads = nthreads
    /\ body \in ApiTexts
    /\ dynamic_proxy_key \in {"none", "plain"}
    /\ dynamic_proxy_key # "none" => body = Address1 /\ nthreads = 1
    /\ timeout = 0
    /\ maxtries \in 1..maxtriesproxy
    /\ parser = "parser"
    /\ Constructed

SpecFetch == InitFetch /\ [][Next]_vars

----------------------------------------------------------------------------
(* Properties of the whole system.                                         *)

Resident == Range(heap)

Finished(t) == pc[t] \in {"done", "died"}

\* thread t takes a proxy out of the queue in this step
Takes(t) == pc[t] = "get" /\ pc'[t] # "get"

\* C3: the proxy __get_proxy takes is resident, no resident proxy has a
\* smaller priority, the proxy leaves the pool, and a pool of one element
\* (put into an empty pool) gives that element back.
C3_TakesSmallestPriority ==
    [][\A t \in Threads :
          Takes(t) =>
              /\ curproxy'[t] \in Resident
              /\ \A q \in Resident :
                    proxies[curproxy'[t]].priority <= proxies[q].priority
              /\ Range(heap') = Resident \ {curproxy'[t]}
              /\ Len(heap') = Len(heap) - 1
              /\ Len(heap) = 1 => curproxy'[t] = heap[1] /\ heap' = <<>>]_vars

\* a thread holds a proxy it preferred to one still resident
C3_Witness ==
    \E t \in Threads :
        /\ pc[t] = "do_request"
        /\ \E q \in Resident : proxies[curproxy[t]].priority < proxies[q].priority
        /\ \A u \in Threads \ {t} : pc[u] \in {"iterate", "check_last", "put",
                                              "done", "died"}

\* C4: no thread is left waiting in __get_proxy for a proxy of an empty
\* pool: with every other thread finished, a thread still inside get() on
\* the empty queue waits forever.
C4_NeverLeftBlocked ==
    \A t \in Threads :
        ~(/\ pc[t] = "get"
          /\ heap = <<>>
          /\ \A u \in Threads \ {t} : Finished(u))

Occurrences(i) ==
    Cardinality({k \in 1..Len(heap) : heap[k] = i})
        + Cardinality({t \in Threads : curproxy[t] = i})

\* C5: every Proxy object is resident once, or held by one thread, or
\* neither (discarded); never twice in the pool, never resident and held.
C5_ResidentOrHeldOnce ==
    /\ \A i \in 1..Len(proxies) : Occurrences(i) <= 1
    /\ Resident \subseteq 1..Len(proxies)
    /\ \A t \in Threads : curproxy[t] \in 0..Len(proxies)

\* a proxy was penalised and is back in the pool beside another one, while
\* a third party holds nothing
C5_Witness ==
    /\ Len(heap) = 2
    /\ \E i \in Resident : proxies[i].numtries = 1
    /\ \E t \in Threads : pc[t] = "request"

\* C6: a Proxy object changes only in a step of the thread holding it, and
\* never while it is resident in the pool.
C6_MutatedOnlyWhenHeld ==
    [][\A i \in 1..Len(proxies) :
          proxies'[i] # proxies[i] =>
              /\ i \notin Resident
              /\ \E t \in Threads :
                    curproxy[t] = i /\ pc[t] = "do_request" /\ pc'[t] # pc[t]]_vars

\* a held proxy was rewarded and returned while dynamic discovery is on
C6_Witness ==
    /\ dynamic_proxy_key # "none"
    /\ \E i \in Resident : proxies[i].priority = 9 /\ proxies[i].on_a_row = 1
    /\ \E t \in Threads : pc[t] = "iterate" /\ page[t] = "ok"

\* C9: once a proxy is disposed of for a ban phrase, no later __get_proxy
\* returns a proxy with its address.
C9_BannedAddressNeverTaken ==
    [][\A t \in Threads :
          Takes(t) =>
              proxies[curproxy'[t]].address
                  \notin {proxies[b].address : b \in banned}]_vars

\* thread t receives a 403 page in this step
Gets403(t) == pc[t] = "do_request" /\ page[t] # "403" /\ page'[t] = "403"

\* C10: on a 403 the held proxy's priority grows by exactly 10, its run of
\* hits is reset, its tries are unchanged, and it is back in the pool when
\* the loop goes round.
C10_ForbiddenDemotesByTen ==
    [][\A t \in Threads :
          Gets403(t) =>
              LET cur == curproxy[t]
              IN  /\ proxies'[cur].priority = proxies[cur].priority + 10
                  /\ proxies'[cur].on_a_row = 0
                  /\ proxies'[cur].numtries = proxies[cur].numtries
                  /\ cur \in Range(heap')
                  /\ cur \notin Resident
                  /\ pc'[t] = "request"]_vars

\* a thread that already fetched a page got a 403 through the proxy that
\* had served it, and sent it back
C10_Witness ==
    \E t \in Threads :
        /\ pc[t] = "request"
        /\ page[t] = "403"
        /\ res[t] # <<>>
        /\ \E i \in Resident :
              /\ proxies[i].priority = 19
              /\ proxies[i].on_a_row = 0

----------------------------------------------------------------------------
(* The state machine of the event driven directly: the generated set_      *)
(* methods in any order, Event.clear and the controller's is_sentenced.    *)

InitStates ==
    /\ prx = NoProxy /\ calls = <<>>
    /\ urls = <<>> /\ nthreads = 1 /\ actualnthreads = 1
    /\ body = <<>> /\ dynamic_proxy_key = "none"
    /\ timeout = 0
    /\ maxtries = maxtriesproxy
    /\ parser = "None"
    /\ Constructed

CallSet(kstate) ==
    /\ Len(calls) < MaxCalls
    /\ set_state(kstate)
    /\ calls' = Append(calls, <<"set_state", kstate>>)
    /\ UNCHANGED <<prx, mainVars, configVars, raised, rotatorVars, threadVars,
                   controlVars, historyVars>>

CallClear ==
    /\ Len(calls) < MaxCalls
    /\ event' = FALSE
    /\ calls' = Append(calls, <<"clear", "None">>)
    /\ UNCHANGED <<prx, mainVars, configVars, raised, rotatorVars, threadVars,
                   controlVars, historyVars, curstate>>

CallIsSentenced ==
    /\ Len(calls) < MaxCalls
    /\ Thread_is_sentenced
    /\ calls' = Append(calls, <<"is_sentenced", call'.ret>>)
    /\ UNCHANGED <<prx, timeout, timeoutset, alarm, started, configVars, raised,
                   rotatorVars, threadVars, controlVars, historyVars>>

NextStates ==
    \/ \E kstate \in StateNames : CallSet(kstate)
    \/ CallClear
    \/ CallIsSentenced

SpecStates == InitStates /\ [][NextStates]_vars

\* C13: is_sentenced returns True in ABORT_THREAD, ABORT_USER and FINISHED
\* and False in the five other states; a True answer leaves the state at
\* FINISHED, so the call repeated at once answers True again; a False
\* answer leaves state and flag as they were.
C13_IsSentenced ==
    [][calls' = Append(calls, <<"is_sentenced", call'.ret>>) =>
          /\ curstate \in {"ABORT_THREAD", "ABORT_USER", "FINISHED"}
                => call'.ret = "True"
          /\ curstate \in {"STARTED", "EXECUTING", "REFRESH_PROXIES",
                           "OUT_OF_PROXIES", "TIMEOUT"}
                => call'.ret = "False"
          /\ call'.ret = "True" => curstate' = "FINISHED"
          /\ call'.ret = "False" => curstate' = curstate /\ event' = event
          /\ (calls # <<>> /\ calls[Len(calls)] = <<"is_sentenced", "True">>)
                => call'.ret = "True" /\ curstate' = "FINISHED"]_vars

\* an abort was answered True twice in a row
C13_Witness ==
    /\ calls = <<<<"set_state", "ABORT_THREAD">>, <<"is_sentenced", "True">>,
                 <<"is_sentenced", "True">>>>
    /\ curstate = "FINISHED"

\* C15: the transition into REFRESH_PROXIES, OUT_OF_PROXIES, TIMEOUT,
\* ABORT_THREAD or ABORT_USER leaves the flag set, the transition into
\* STARTED, EXECUTING or FINISHED leaves it as it was, and the state machine
\* starts in STARTED with the flag clear.
C15_TransitionSetsFlag ==
    [][/\ calls = <<>> => curstate = "STARTED" /\ event = FALSE
       /\ \A kstate \in StateNames :
             calls' = Append(calls, <<"set_state", kstate>>) =>
                /\ curstate' = kstate
                /\ kstate \in {"REFRESH_PROXIES", "OUT_OF_PROXIES", "TIMEOUT",
                               "ABORT_THREAD", "ABORT_USER"} => event' = TRUE
                /\ kstate \in {"STARTED", "EXECUTING", "FINISHED"}
                      => event' = event]_vars

\* the flag was set by TIMEOUT and survived the transition into FINISHED
C15_Witness ==
    /\ calls = <<<<"set_state", "TIMEOUT">>, <<"set_state", "FINISHED">>>>
    /\ event

----------------------------------------------------------------------------
(* Properties of the controller with its calling script.                   *)

\* thread t leaves __iterate through the except clause in this step
Aborts(t) ==
    /\ pc[t] \in {"treat_new_proxy", "do_request"}
    /\ pc'[t] = "check_last"

C12_CollectsEveryResult ==
    (/\ call.op = "join_responses"
     /\ caller = "joined"
     /\ Cardinality(Threads) >= 2)
        => \A t \in Threads :
              \A k \in 1..Len(res[t]) : res[t][k] \in Range(call.out)

\* C14: a sentenced state (ABORT_THREAD, ABORT_USER, FINISHED) is never
\* left for a state that is not sentenced.
C14_SentencedForGood ==
    [][SENTENCED(curstate) => SENTENCED(curstate')]_vars

\* the script calls start_threads in this step
CallsStart == call'.op = "start_threads" /\ call' # call

\* what a start_threads that starts nothing leaves alone
StartsNothing ==
    UNCHANGED <<threads, threadVars, eventVars, timeoutset, alarm, queue,
                rotatorVars, urls, data, actualnthreads, started>>

\* C16: start_threads called while self.threads is not empty returns False
\* and changes nothing: no thread, no EXECUTING, no alarm, queue and pool
\* as they were.
C16_RefusedStartChangesNothing ==
    [][(CallsStart /\ threads # <<>>) =>
          /\ call'.ret = "False"
          /\ raised' = raised
          /\ StartsNothing]_vars

\* a start was refused while a worker had already queued its list
C16_Witness ==
    /\ call.op = "start_threads" /\ call.ret = "False"
    /\ threads # <<>>
    /\ queue # <<>>
    /\ curstate = "EXECUTING"

\* C17 as stated: start_threads with a url that lacks the protocol raises
\* ValueError whatever the state of the controller, starting nothing.
C17_InvalidUrlsAlwaysRaise ==
    [][(CallsStart /\ ~test_if_urls(call'.arg)) =>
          /\ raised' = "ValueError"
          /\ StartsNothing]_vars

\* C17 amended: with a url that lacks the protocol, start_threads raises
\* ValueError when no earlier batch is unjoined and returns False when one
\* is; either way it starts nothing.
C17_InvalidUrlsRaiseOrRefuse ==
    [][(CallsStart /\ call'.arg \in BadUrlLists) =>
          /\ threads = <<>> => raised' = "ValueError" /\ call'.ret = "raised"
          /\ threads # <<>> => raised' = raised /\ call'.ret = "False"
          /\ StartsNothing]_vars

\* a batch was run and joined, and the next start_threads raised
C17_Witness ==
    /\ raised = "ValueError"
    /\ call.op = "start_threads" /\ call.arg \in BadUrlLists
    /\ threads = <<>>
    /\ Threads # {}

\* C18: with no timeout, no interrupt and every fetch answered by a clean
\* page, wait_for_threads returns.  It cannot once this state is reached:
\* every worker has ended, the script waits in event.wait() and nothing is
\* left to set the event.
C18_JoinReturns ==
    ~(/\ caller = "wait"
      /\ threads # <<>>
      /\ \A t \in Threads : Finished(t)
      /\ timeout = 0
      /\ faults = 0
      /\ \A t \in Threads : idx[t] > Len(data[t])
      /\ ~event)

\* C19: when wait_for_threads returns every worker has ended, the alarm is
\* off, the event clear and self.threads empty; and a start_threads that
\* follows with well-formed urls returns True with the event still clear.
C19_JoinLeavesControllerReusable ==
    [][/\ (caller = "join" /\ caller' = "joined") =>
             /\ \A t \in Threads : pc'[t] \in {"done", "died"}
             /\ ~timeoutset' /\ ~alarm'
             /\ ~event'
             /\ threads' = <<>>
       /\ (caller = "joined" /\ CallsStart /\ test_if_urls(call'.arg)) =>
             /\ call'.ret = "True"
             /\ ~event'
             /\ threads' # <<>>
             /\ \A t \in DOMAIN pc' : pc'[t] = "iterate"]_vars

\* a worker of a second batch, started with a timeout after the first was
\* joined, went past both tests of the event
C19_Witness ==
    /\ timeout = 1 /\ timeoutset
    /\ started = 2 /\ Len(urls) = 1
    /\ \E t \in Threads : pc[t] = "empty"

\* the script calls join_responses in this step (no worker moves in it)
CallsCollect ==
    /\ call'.op = "join_responses"
    /\ pc' = pc /\ caller' = caller
    /\ call' # call \/ faults' # faults \/ queue' # queue

\* the elements of the lists q[1..i-1]
RECURSIVE Before(_, _)
Before(q, i) == IF i = 1 THEN 0 ELSE Before(q, i - 1) + Len(q[i - 1])

\* C20: join_responses with threads unjoined returns an empty list and
\* leaves the queue as it is; with none unjoined it empties the queue and
\* returns the queued lists one after the other.
C20_CollectDrainsOrRefuses ==
    [][CallsCollect =>
          IF threads # <<>>
          THEN call'.out = <<>> /\ queue' = queue
          ELSE /\ queue' = <<>>
               /\ Len(call'.out) = Before(queue, Len(queue) + 1)
               /\ \A i \in 1..Len(queue) : \A k \in 1..Len(queue[i]) :
                     call'.out[Before(queue, i) + k] = queue[i][k]]_vars

\* two workers queued a page each and the joined script collected both
C20_Witness ==
    /\ call.op = "join_responses"
    /\ caller = "joined"
    /\ Cardinality(Threads) = 2
    /\ Len(call.out) = 2
    /\ queue = <<>>

----------------------------------------------------------------------------
(* Properties of what the threads record and of the rounds of request.     *)

\* thread t is handed a page by request in this step
GetsPage(t) == pc[t] = "do_request" /\ pc'[t] = "iterate"

\* C21: a page with status 404 is recorded as {url: None} and the thread
\* goes on to its next url, with a Parser or without one; a response is
\* stored whole only when there is no Parser and the status is not 404.
C21_NotFoundRecordsNull ==
    [][\A t \in Threads :
          GetsPage(t) =>
             LET url == data[t][idx[t]]
                 n == Len(res'[t])
             IN  /\ answer'[t] = "404" =>
                       /\ res'[t] = Append(res[t], <<"dict", url, "None">>)
                       /\ idx'[t] = idx[t] + 1
                 /\ n > Len(res[t]) /\ res'[t][n][1] = "page" =>
                       parser = "None" /\ answer'[t] # "404"]_vars

\* C22: a classified network error raised by the request of retrieve is
\* caught and the request retried; it never leaves retrieve as an error of
\* another kind, so retrieve never ends in a TypeError.
C22_NetworkErrorRetried == ~(caller = "crashed" /\ raised = "TypeError")

\* C23: after the timeout expired inside wait_for_threads (state TIMEOUT,
\* event set) the threads end and wait_for_threads returns.  It cannot when
\* this state is reached: the script is joining the threads and one of them
\* waits in get() on the empty queue, with nobody left to put a proxy back.
C23_TimeoutJoinReturns ==
    ~(/\ curstate = "TIMEOUT"
      /\ event
      /\ caller = "join"
      /\ \E t \in Threads :
            /\ pc[t] = "get"
            /\ heap = <<>>
            /\ \A u \in Threads \ {t} : Finished(u))

\* thread t leaves request with None in this step, no request made
ReturnsNone(t) ==
    /\ pc'[t] = "iterate"
    /\ idx'[t] = idx[t] + 1
    /\ res'[t] = res[t]
    /\ curproxy'[t] = 0
    /\ UNCHANGED <<proxies, heap, dynproxies, faults>>

\* C24: a round of request that finds the pool empty sets OUT_OF_PROXIES,
\* which sets the event, and returns None without a request; a round that
\* finds the event set returns None with no proxy taken and with the state,
\* the event and the pool as they were.
C24_EmptyPoolOrEventSet ==
    [][\A t \in Threads :
          /\ pc[t] = "empty" /\ pc'[t] # "empty" /\ heap = <<>> =>
                pc'[t] = "out_of_proxies" /\ UNCHANGED <<rotatorVars, eventVars>>
          /\ pc[t] = "out_of_proxies" /\ pc'[t] # "out_of_proxies" =>
                /\ curstate' = "OUT_OF_PROXIES"
                /\ event'
                /\ ReturnsNone(t)
          /\ pc[t] = "request" /\ pc'[t] # "request" /\ event =>
                /\ ReturnsNone(t)
                /\ UNCHANGED eventVars]_vars

\* two threads and one proxy: one thread found the pool empty, the other
\* had its proxy answer 403, put it back and found the event set
C24_Witness ==
    /\ event /\ curstate = "OUT_OF_PROXIES"
    /\ Cardinality(Threads) = 2
    /\ \A t \in Threads : pc[t] = "iterate" /\ idx[t] = 2 /\ res[t] = <<>>
    /\ Len(heap) = 1 /\ Len(proxies) = 1
    /\ proxies[1].priority = 20

\* the request thread t made for its url in this step ended in outcome
Answered(t, outcomes) == pc[t] = "do_request" /\ answer'[t] \in outcomes

\* thread t goes back to the head of the while loop, its proxy let go
RetriesRound(t) ==
    /\ pc'[t] = "request"
    /\ curproxy'[t] = 0
    /\ idx'[t] = idx[t] /\ res'[t] = res[t]

\* C25: a proxy-level error in the request for the url adds 1 to the tries
\* and to the priority value of the proxy taken and ends its run of hits;
\* the proxy is put back exactly when its tries are below maxtriesproxy;
\* either way the loop goes back to the check of the event.
C25_ProxyErrorCountsATry ==
    [][\A t \in Threads :
          Answered(t, ProxyExceptions) =>
             LET cur == curproxy[t]
                 old == proxies[cur]
                 new == proxies'[cur]
             IN  /\ new.numtries = old.numtries + 1
                 /\ new.priority = old.priority + 1
                 /\ new.on_a_row = 0
                 /\ cur \notin Range(heap)
                 /\ cur \in Range(heap') <=> new.numtries < maxtries
                 /\ RetriesRound(t)]_vars

\* the one proxy of the pool used up its tries and was dropped
C25_Witness ==
    \E t \in Threads :
        /\ answer[t] = "ProxyError" /\ pc[t] = "request"
        /\ Len(proxies) = 1 /\ heap = <<>>
        /\ proxies[1].numtries = maxtries
        /\ proxies[1].priority = 11

\* C26: a connection or streaming error in the request for the url leaves
\* the priority, the run of hits and the tries of the proxy taken as they
\* were, the proxy is not put back and the loop goes back to the check of
\* the event; the request to the dynamic proxy API, whatever becomes of it,
\* leaves the proxy as it was and in the thread's hands.
C26_ConnErrorLeavesProxyAlone ==
    [][\A t \in Threads :
          LET cur == curproxy[t]
          IN  /\ Answered(t, ConnExceptions \cup CommExceptions) =>
                    /\ proxies'[cur] = proxies[cur]
                    /\ cur \notin Range(heap')
                    /\ RetriesRound(t)
              /\ pc[t] = "treat_new_proxy" /\ pc'[t] # "treat_new_proxy" =>
                    /\ proxies'[cur] = proxies[cur]
                    /\ cur \notin Range(heap')]_vars

\* a proxy that had answered with a page was dropped on a connection error
\* with its record untouched, and the pool is left empty
C26_Witness ==
    \E t \in Threads :
        /\ answer[t] \in ConnExceptions /\ pc[t] = "request"
        /\ Len(proxies) = 1 /\ heap = <<>>
        /\ proxies[1].numtries = 0
        /\ proxies[1].priority = 9 /\ proxies[1].on_a_row = 1

\* C27: every proxy in the pool has its tries below maxtriesproxy; the tries
\* of a proxy never go down; a proxy whose tries reached maxtriesproxy is in
\* no thread's hands and is never put back.
C27_ResidentBelowMaxTries ==
    [][\A i \in 1..Len(proxies') :
          /\ i \in Range(heap') => proxies'[i].numtries < maxtries
          /\ proxies'[i].numtries >= maxtries =>
                /\ i \notin Range(heap')
                /\ \A t \in DOMAIN curproxy' : curproxy'[t] # i
          /\ i <= Len(proxies) =>
                proxies'[i].numtries >= proxies[i].numtries]_vars

\* one proxy used up its tries and is gone, the other answered with a page
\* afterwards and is back in the pool
C27_Witness ==
    /\ Len(proxies) = 2
    /\ \E i, j \in 1..2 :
          /\ proxies[i].numtries = maxtries /\ i \notin Resident
          /\ proxies[j].numtries < maxtries /\ j \in Resident
          /\ proxies[j].on_a_row > 0
    /\ \E t \in Threads : pc[t] = "done"

\* no request so far was answered with a page that request kept or with a
\* 403: every proxy stands where its failed tries alone put it
OnlyErrorsAndBans ==
    \A i \in 1..Len(proxies) :
        /\ proxies[i].priority = 10 + proxies[i].numtries
        /\ proxies[i].on_a_row = 0

\* C28: without dynamic proxies and with every request ending in an error
\* or a banned page, every call of request returns None in the end.  It
\* cannot when this state is reached: a thread is inside get() on the empty
\* queue and all the others have finished.
C28_RequestReturns ==
    ~(/\ dynamic_proxy_key = "none"
      /\ OnlyErrorsAndBans
      /\ \E t \in Threads :
            /\ pc[t] = "get"
            /\ heap = <<>>
            /\ curstate = "OUT_OF_PROXIES"
            /\ \A u \in Threads \ {t} : Finished(u) /\ res[u] = <<>>)

\* C29: a sentenced state entered while a batch runs is still there when
\* wait_for_threads returns: no thread that finds the pool empty and no
\* expiry of the timeout replaces it before the threads are joined.
C29_SentencedUntilJoined ==
    [][warn_wait_threads(threads) /\ SENTENCED(curstate)
          => SENTENCED(curstate')]_vars

\* C30 as claimed: whenever the event is set the state is one of those that
\* set it (REFRESH_PROXIES, OUT_OF_PROXIES, TIMEOUT, ABORT_THREAD,
\* ABORT_USER).
C30_FlagMeansSignalState == event => SETEVENT(curstate)

\* C30: whenever the event is set the state is one of those that set it or
\* FINISHED, which is_sentenced puts in the place of ABORT_THREAD or
\* ABORT_USER; the event is never set in STARTED or EXECUTING.
C30_FlagMeansSignalStateOrFinished ==
    event => SETEVENT(curstate) \/ curstate = "FINISHED"

\* a thread aborted and the script asked is_sentenced while the threads run
C30_Witness ==
    /\ event /\ curstate = "FINISHED"
    /\ warn_wait_threads(threads)
    /\ call.op = "is_sentenced" /\ call.ret = "True"

----------------------------------------------------------------------------
(* The queue of results over the batches of a run.                         *)

\* q is the beginning of r
Prefix(q, r) == Len(q) <= Len(r) /\ \A i \in 1..Len(q) : r[i] = q[i]

====
